---- MODULE Spec2Model ----
(***************************************************************************)
(* A model of the crawl-and-download engine of atar-rocks-downloader:      *)
(*   - download_files_parallel / download_file   (src/src/network.rs)      *)
(*   - crawl_directory / extract_links           (src/src/network.rs)      *)
(*   - should_skip_url / should_filter           (src/src/utils.rs)        *)
(*                                                                         *)
(* Strings are modelled as sequences of tokens: a token is a run of        *)
(* characters that the code never splits ("sub", "a.txt", "..", "%20") or  *)
(* the separator "/".  format!("{}/{}", a, b) is a \o <<"/">> \o b.        *)
(***************************************************************************)
EXTENDS Integers, Sequences, FiniteSets, TLC

VARIABLES
    \* ---- download scheduler (download_files_parallel) ----
    files,                  \* the manifest handed to download_files_parallel
    concurrent_downloads,   \* the configured concurrency limit
    disk,                   \* output directory: decoded path -> length, -1 = absent
    sched_pc,               \* "idle" | "loop" | "ok" | "err": the scheduler's position
    next_i,                 \* index of the next entry the for loop handles
    dtasks,                 \* one record per manifest entry: its download task
    permits,                \* permits left in the semaphore
    total_size_downloaded,  \* the shared AtomicU64
    run,                    \* 1 = first run, 2 = second run over the same directory
    succ1,                  \* entries whose download_file returned Ok in run 1
    \* ---- directory crawler (crawl_directory) ----
    site,                   \* the remote tree: directory URL -> hrefs of its listing page
    filters,                \* the configured rule list
    ctasks,                 \* the crawl_directory calls, in spawn order; 1 is the root
    total_size,             \* the shared AtomicU64 of probed sizes
    \* ---- main: directories, then downloads (main.rs) ----
    main_pc,                \* "idle" | "mkdir" | "download" | "join" | "exit1" | "ok"
    dir_results,            \* one result per directory to create
    mtasks,                 \* one record per entry of download_list: its task
    mpermits,               \* permits left in main's semaphore
    \* ---- one should_filter call ----
    q_path,                 \* the path argument
    q_rules,                \* the rule list argument
    q_result,               \* "none" before the call, then what it returned
    q_perm,                 \* the same rules in another order
    q_result2,              \* what the call on q_perm returned
    \* ---- one retried call (Retry::spawn_notify) ----
    r_call,                 \* "none" | "get_url" | "get_file_size"
    r_pc,                   \* "idle" | "running" | "ok" | "err"
    r_tries,                \* attempts made so far
    r_last,                 \* how the last attempt ended
    r_size                  \* the size in an Ok of get_file_size

cvars == <<site, filters, ctasks, total_size>>

dvars == <<files, concurrent_downloads, disk, sched_pc, next_i, dtasks, permits,
           total_size_downloaded, run, succ1>>

mvars == <<main_pc, dir_results, mtasks, mpermits>>

qvars == <<q_path, q_rules, q_result, q_perm, q_result2>>

rvars == <<r_call, r_pc, r_tries, r_last, r_size>>

xvars == <<mvars, qvars, rvars>>

vars == <<dvars, cvars, xvars>>

\* The parts of the state a specification does not use stay as they start.
IdleCrawl == site = <<>> /\ filters = <<>> /\ ctasks = <<>> /\ total_size = 0

IdleMain == main_pc = "idle" /\ dir_results = <<>> /\ mtasks = <<>> /\ mpermits = 0

IdleFilter ==
    /\ q_path = <<>> /\ q_rules = <<>> /\ q_result = "none"
    /\ q_perm = <<>> /\ q_result2 = "none"

IdleRetry ==
    r_call = "none" /\ r_pc = "idle" /\ r_tries = 0 /\ r_last = "none" /\ r_size = 0

\* ------------------------------------------------------------------ bounds
MaxFiles == 3       \* longest manifest
MaxLimit == 2       \* largest concurrency limit
MaxBody == 1        \* longest response body, in chunks
MaxDirs == 2        \* longest list of directories to create
MaxRules == 2       \* longest rule list handed to one should_filter call
MaxProbe == 1       \* largest Content-Length a size probe reports

\* ----------------------------------------------------------- small helpers
Range(s) == {s[i] : i \in DOMAIN s}

RECURSIVE SumOver(_, _)
SumOver(f, S) ==
    IF S = {} THEN 0
    ELSE LET x == CHOOSE y \in S : TRUE IN f[x] + SumOver(f, S \ {x})

\* The non-empty sequences over S of length at most n.
SeqsUpTo(S, n) == UNION {[1..k -> S] : k \in 1..n}

NoRepeat(s) == \A i, j \in DOMAIN s : s[i] = s[j] => i = j

\* ------------------------------------------------- percent decoding (l.237)
\* percent_decode_str(..).decode_utf8(): "%20" is a space, "%FF" is the byte
\* 0xFF, which is not UTF-8, so decode_utf8 returns an error.
DecodeOk(path) == "%FF" \notin Range(path)

PercentDecode(path) ==
    [i \in DOMAIN path |-> IF path[i] = "%20" THEN " " ELSE path[i]]

\* --------------------------------------------------------- download inputs
PathA == <<"/", "a.txt">>
PathB == <<"sub", "/", "/", "b", "%20", "c.txt">>
PathC == <<"sub", "/", "/", "d.txt">>
PathBad == <<"/", "%FF", ".txt">>

ManifestPaths == {PathA, PathB, PathC, PathBad}

DownloadData(p) == [url |-> p, output_dir |-> p]

\* Download tasks differ only by their path, so the decodable paths are taken
\* in one order; the undecodable one may stand anywhere among them.
Rank(p) == CHOOSE k \in 1..4 : <<PathA, PathB, PathC, PathBad>>[k] = p

Canonical(s) ==
    \A i, j \in DOMAIN s :
        (i < j /\ s[i] # PathBad /\ s[j] # PathBad) => Rank(s[i]) < Rank(s[j])

Manifests ==
    {[i \in DOMAIN s |-> DownloadData(s[i])] :
        s \in {t \in SeqsUpTo(ManifestPaths, MaxFiles) : NoRepeat(t) /\ Canonical(t)}}

DiskPaths == {PercentDecode(p) : p \in {q \in ManifestPaths : DecodeOk(q)}}

NoTask == [pc |-> "unspawned", path |-> <<>>, downloaded |-> 0, res |-> "none",
           size |-> 0, req |-> FALSE, skipped |-> FALSE,
           gets |-> 0,          \* GET requests sent for the file body
           cause |-> "none"]    \* why the GET made download_file return Err

\* ------------------------------------------------------------ the semaphore
\* semaphore.acquire().await completes only while a permit is left (l.243).
CanAcquireAlways == TRUE

CanAcquire == permits > 0

\* ---------------------------------------------------------- download_file
\* tokio::fs::metadata(..) is Ok and metadata.is_file() (l.292-295).
IsExistingFileNever(d, path) == FALSE

IsExistingFile(d, path) == d[path] >= 0

\* total_size_downloaded.fetch_add(size, SeqCst) (l.259).
FetchAddLost(total, size) == size

FetchAdd(total, size) == total + size

Finished(t) == t.pc \in {"unspawned", "done"}

InFlight == {i \in DOMAIN dtasks :
                dtasks[i].pc \in {"acquired", "get", "create", "stream", "ok", "release"}}

Succeeded == {i \in DOMAIN dtasks : dtasks[i].res = "ok"}

\* ------------------------------------------------------------------- Init
InitDownload ==
    /\ files \in Manifests
    /\ concurrent_downloads \in 0..MaxLimit
    /\ \E pre \in SUBSET {PercentDecode(PathA)} :
          disk = [p \in DiskPaths |-> IF p \in pre THEN 1 ELSE -1]
    /\ sched_pc = "loop"
    /\ next_i = 1
    /\ dtasks = [i \in DOMAIN files |-> NoTask]
    /\ permits = concurrent_downloads
    /\ total_size_downloaded = 0
    /\ run = 1
    /\ succ1 = {}
    /\ site = <<>>
    /\ filters = <<>>
    /\ ctasks = <<>>
    /\ total_size = 0
    /\ IdleMain /\ IdleFilter /\ IdleRetry

\* ------------------------------------------------- download_files_parallel
\* One iteration of `for mut file in files` whose decoding fails: the `?`
\* returns the error from download_files_parallel (l.237-239).
DecodeFail ==
    /\ sched_pc = "loop"
    /\ next_i <= Len(files)
    /\ ~DecodeOk(files[next_i].output_dir)
    /\ sched_pc' = "err"
    /\ UNCHANGED <<files, concurrent_downloads, disk, next_i, dtasks, permits,
                   total_size_downloaded, run, succ1, cvars, xvars>>

\* One iteration that decodes the path and spawns the task (l.228-272).
Spawn ==
    /\ sched_pc = "loop"
    /\ next_i <= Len(files)
    /\ DecodeOk(files[next_i].output_dir)
    /\ dtasks' = [dtasks EXCEPT ![next_i] =
                     [NoTask EXCEPT !.pc = "waiting",
                                    !.path = PercentDecode(files[next_i].output_dir)]]
    /\ next_i' = next_i + 1
    /\ UNCHANGED <<files, concurrent_downloads, disk, sched_pc, permits,
                   total_size_downloaded, run, succ1, cvars, xvars>>

\* futures::future::join_all(tasks).await, then Ok(()) (l.276-279).
JoinAll ==
    /\ sched_pc = "loop"
    /\ next_i > Len(files)
    /\ \A i \in DOMAIN dtasks : dtasks[i].pc = "done"
    /\ sched_pc' = "ok"
    /\ UNCHANGED <<files, concurrent_downloads, disk, next_i, dtasks, permits,
                   total_size_downloaded, run, succ1, cvars, xvars>>

\* ------------------------------------------------------- one download task
Acquire(i) ==
    /\ dtasks[i].pc = "waiting"
    /\ CanAcquire
    /\ permits' = permits - 1
    /\ dtasks' = [dtasks EXCEPT ![i].pc = "acquired"]
    /\ UNCHANGED <<files, concurrent_downloads, disk, sched_pc, next_i,
                   total_size_downloaded, run, succ1, cvars, xvars>>

\* download_file l.291-299: an existing regular file is returned as done.
CheckExisting(i) ==
    /\ dtasks[i].pc = "acquired"
    /\ dtasks' = [dtasks EXCEPT ![i] =
          IF IsExistingFile(disk, dtasks[i].path)
          THEN [@ EXCEPT !.pc = "ok", !.res = "ok", !.skipped = TRUE,
                         !.size = disk[dtasks[i].path]]
          ELSE [@ EXCEPT !.pc = "get"]]
    /\ UNCHANGED <<files, concurrent_downloads, disk, sched_pc, next_i, permits,
                   total_size_downloaded, run, succ1, cvars, xvars>>

\* download_file l.301-307: one GET, no retry; a send error or a non-success
\* status is Err.
SendGet(i) ==
    /\ dtasks[i].pc = "get"
    /\ \E outcome \in {"neterr", "badstatus", "success"} :
          dtasks' = [dtasks EXCEPT ![i] =
              IF outcome = "success"
              THEN [@ EXCEPT !.pc = "create", !.req = TRUE, !.gets = @ + 1]
              ELSE [@ EXCEPT !.pc = "release", !.res = "err", !.req = TRUE,
                             !.gets = @ + 1, !.cause = outcome]]
    /\ UNCHANGED <<files, concurrent_downloads, disk, sched_pc, next_i, permits,
                   total_size_downloaded, run, succ1, cvars, xvars>>

\* download_file l.313-314: File::create truncates or creates, or fails.
CreateFile(i) ==
    /\ dtasks[i].pc = "create"
    /\ \/ /\ disk' = [disk EXCEPT ![dtasks[i].path] = 0]
          /\ dtasks' = [dtasks EXCEPT ![i].pc = "stream"]
       \/ /\ dtasks' = [dtasks EXCEPT ![i].pc = "release", ![i].res = "err"]
          /\ UNCHANGED disk
    /\ UNCHANGED <<files, concurrent_downloads, sched_pc, next_i, permits,
                   total_size_downloaded, run, succ1, cvars, xvars>>

\* download_file l.319-324: one chunk arrives and is written.
Chunk(i) ==
    /\ dtasks[i].pc = "stream"
    /\ dtasks[i].downloaded < MaxBody
    /\ disk' = [disk EXCEPT ![dtasks[i].path] = @ + 1]
    /\ dtasks' = [dtasks EXCEPT ![i].downloaded = @ + 1]
    /\ UNCHANGED <<files, concurrent_downloads, sched_pc, next_i, permits,
                   total_size_downloaded, run, succ1, cvars, xvars>>

\* download_file l.320-321: `chunk?` or `write_all(..)?` fails mid-stream;
\* the partial file stays on disk.
StreamErr(i) ==
    /\ dtasks[i].pc = "stream"
    /\ dtasks' = [dtasks EXCEPT ![i].pc = "release", ![i].res = "err"]
    /\ UNCHANGED <<files, concurrent_downloads, disk, sched_pc, next_i, permits,
                   total_size_downloaded, run, succ1, cvars, xvars>>

\* download_file l.319, 328: the stream ends, Ok(downloaded_size).
StreamEnd(i) ==
    /\ dtasks[i].pc = "stream"
    /\ dtasks' = [dtasks EXCEPT ![i].pc = "ok", ![i].res = "ok",
                                ![i].size = dtasks[i].downloaded]
    /\ UNCHANGED <<files, concurrent_downloads, disk, sched_pc, next_i, permits,
                   total_size_downloaded, run, succ1, cvars, xvars>>

\* The Ok(size) arm (l.258-262).
AddDownloaded(i) ==
    /\ dtasks[i].pc = "ok"
    /\ total_size_downloaded' = FetchAdd(total_size_downloaded, dtasks[i].size)
    /\ dtasks' = [dtasks EXCEPT ![i].pc = "release"]
    /\ UNCHANGED <<files, concurrent_downloads, disk, sched_pc, next_i, permits,
                   run, succ1, cvars, xvars>>

\* drop(permit) (l.269).
Release(i) ==
    /\ dtasks[i].pc = "release"
    /\ permits' = permits + 1
    /\ dtasks' = [dtasks EXCEPT ![i].pc = "done"]
    /\ UNCHANGED <<files, concurrent_downloads, disk, sched_pc, next_i,
                   total_size_downloaded, run, succ1, cvars, xvars>>

\* The program is run a second time on the same manifest and output
\* directory: everything but the disk starts afresh.
Rerun ==
    /\ run = 1
    /\ sched_pc \in {"ok", "err"}
    /\ \A i \in DOMAIN dtasks : Finished(dtasks[i])
    /\ run' = 2
    /\ succ1' = Succeeded
    /\ sched_pc' = "loop"
    /\ next_i' = 1
    /\ dtasks' = [i \in DOMAIN files |-> NoTask]
    /\ permits' = concurrent_downloads
    /\ total_size_downloaded' = 0
    /\ UNCHANGED <<files, concurrent_downloads, disk, cvars, xvars>>

NextDownload ==
    \/ DecodeFail
    \/ Spawn
    \/ JoinAll
    \/ \E i \in DOMAIN dtasks : Acquire(i)
    \/ \E i \in DOMAIN dtasks : CheckExisting(i)
    \/ \E i \in DOMAIN dtasks : SendGet(i)
    \/ \E i \in DOMAIN dtasks : CreateFile(i)
    \/ \E i \in DOMAIN dtasks : Chunk(i)
    \/ \E i \in DOMAIN dtasks : StreamErr(i)
    \/ \E i \in DOMAIN dtasks : StreamEnd(i)
    \/ \E i \in DOMAIN dtasks : AddDownloaded(i)
    \/ \E i \in DOMAIN dtasks : Release(i)
    \/ Rerun

SpecDownload == InitDownload /\ [][NextDownload]_vars

\* ================================================================ crawler
\* ---------------------------------------------------------------- strings
\* The components of a path: what is left between separators, "." dropped.
Components(p) == SelectSeq(p, LAMBDA t : t # "/" /\ t # ".")

RECURSIVE JoinSlash(_)
JoinSlash(segs) ==
    IF segs = <<>> THEN <<>>
    ELSE IF Len(segs) = 1 THEN segs
    ELSE <<Head(segs), "/">> \o JoinSlash(Tail(segs))

\* format!("{}/{}", a, b)
Format2(a, b) == a \o <<"/">> \o b

\* ------------------------------------------------------------------- URLs
\* A URL of the listing server is its path: the segments and whether it ends
\* with "/".  Url::join resolves a relative reference against the base and
\* removes dot segments; ".." at the root stays at the root.
RECURSIVE Resolve(_, _)
Resolve(segs, comps) ==
    IF comps = <<>> THEN segs
    ELSE LET c == Head(comps)
             next == IF c = ".."
                     THEN (IF segs = <<>> THEN <<>> ELSE SubSeq(segs, 1, Len(segs) - 1))
                     ELSE IF c = "." THEN segs
                     ELSE Append(segs, c)
         IN Resolve(next, Tail(comps))

UrlJoin(base, href) ==
    LET start == IF Head(href) = "/" THEN <<>>
                 ELSE IF base.dir THEN base.segs
                 ELSE SubSeq(base.segs, 1, Len(base.segs) - 1)
        comps == SelectSeq(href, LAMBDA t : t # "/")
    IN [segs |-> Resolve(start, comps),
        dir  |-> href[Len(href)] \in {"/", "..", "."}]

\* full_url.path()
UrlPath(u) ==
    <<"/">> \o JoinSlash(u.segs)
            \o (IF u.dir /\ u.segs # <<>> THEN <<"/">> ELSE <<>>)

\* ------------------------------------------------------------------ globs
\* glob::Pattern::new: a run of more than two stars is an error; "**" must
\* be a whole path component (at the start or after "/", and followed by "/",
\* which it swallows, or by the end of the pattern).
RECURSIVE ParseFrom(_, _, _)
ParseFrom(text, i, toks) ==
    IF i > Len(text) THEN [ok |-> TRUE, toks |-> toks]
    ELSE IF text[i] = "***" THEN [ok |-> FALSE, toks |-> <<>>]
    ELSE IF text[i] = "**" THEN
        IF (i = 1 \/ text[i - 1] = "/") /\ (i = Len(text) \/ text[i + 1] = "/")
        THEN ParseFrom(text,
                       IF i = Len(text) THEN i + 1 ELSE i + 2,
                       IF Len(toks) > 1 /\ toks[Len(toks)] = "ANYREC"
                       THEN toks ELSE Append(toks, "ANYREC"))
        ELSE [ok |-> FALSE, toks |-> <<>>]
    ELSE IF text[i] = "*" THEN ParseFrom(text, i + 1, Append(toks, "ANYSEQ"))
    ELSE ParseFrom(text, i + 1, Append(toks, text[i]))

ParsePattern(text) == ParseFrom(text, 1, <<>>)

\* glob::Pattern::matches with the default MatchOptions: "*" matches any run
\* of characters, separators included; "**" matches nothing, or a run that
\* ends with a separator, or everything that is left.
RECURSIVE MatchesFrom(_, _)
MatchesFrom(toks, path) ==
    IF toks = <<>> THEN path = <<>>
    ELSE LET t == Head(toks)
             rest == Tail(toks)
             After(k) == SubSeq(path, k + 1, Len(path))
         IN IF t = "ANYSEQ"
            THEN \E k \in 0..Len(path) : MatchesFrom(rest, After(k))
            ELSE IF t = "ANYREC"
            THEN \/ MatchesFrom(rest, path)
                 \/ \E k \in 1..Len(path) : path[k] = "/" /\ MatchesFrom(rest, After(k))
                 \/ MatchesFrom(rest, <<>>)
            ELSE path # <<>> /\ Head(path) = t /\ MatchesFrom(rest, Tail(path))

\* ----------------------------------------------------------- should_filter
Include(pat) == [rule_type |-> "Include", pattern |-> pat]
Exclude(pat) == [rule_type |-> "Exclude", pattern |-> pat]

RECURSIVE FilterLoopFirstMatch(_, _, _)
FilterLoopFirstMatch(path, rules, is_included) ==
    IF rules = <<>> THEN (IF is_included THEN "false" ELSE "true")
    ELSE LET rule == Head(rules)
             pattern == ParsePattern(rule.pattern)
         IN IF ~pattern.ok THEN "err"
            ELSE IF MatchesFrom(pattern.toks, path)
            THEN IF rule.rule_type = "Include" THEN "false" ELSE "true"
            ELSE FilterLoopFirstMatch(path, Tail(rules), is_included)

\* The loop of should_filter: "true" = Ok(true), "false" = Ok(false),
\* "err" = the Err of Pattern::new.
RECURSIVE FilterLoop(_, _, _)
FilterLoop(path, rules, is_included) ==
    IF rules = <<>> THEN (IF is_included THEN "false" ELSE "true")
    ELSE LET rule == Head(rules)
             pattern == ParsePattern(rule.pattern)
         IN IF ~pattern.ok THEN "err"
            ELSE IF MatchesFrom(pattern.toks, path)
            THEN IF rule.rule_type = "Include"
                 THEN FilterLoop(path, Tail(rules), TRUE)
                 ELSE "true"
            ELSE FilterLoop(path, Tail(rules), is_included)

should_filter(path, rules) ==
    IF rules = <<>> THEN "false" ELSE FilterLoop(path, rules, FALSE)

\* ---------------------------------------------------------- should_skip_url
should_skip_url(href) ==
    \/ href = <<"..", "/">>
    \/ href = <<"#">>
    \/ Head(href) \in {"javascript:", "mailto:", "tel:", "?"}

\* ------------------------------------------------------------ extract_links
\* The path handed to should_filter: full_url.path() (l.187-189).
FilterSubject(url, href) == UrlPath(UrlJoin(url, href))

RECURSIVE extract_links_files_only(_, _, _)
extract_links_files_only(content, url, rules) ==
    IF content = <<>> THEN <<>>
    ELSE LET href == Head(content)
             is_dir == href[Len(href)] = "/"
             rest == extract_links_files_only(Tail(content), url, rules)
         IN IF should_skip_url(href) THEN rest
            ELSE IF ~is_dir /\ should_filter(FilterSubject(url, href), rules) = "true"
                 THEN rest
            ELSE <<[href |-> href, link |-> UrlJoin(url, href), is_dir |-> is_dir]>>
                 \o rest

\* extract_links with a set of visited URLs: a directory link whose page
\* some call already has is dropped.
RECURSIVE extract_links_unseen(_, _, _)
extract_links_unseen(content, url, rules) ==
    IF content = <<>> THEN <<>>
    ELSE LET href == Head(content)
             is_dir == href[Len(href)] = "/"
             rest == extract_links_unseen(Tail(content), url, rules)
         IN IF should_skip_url(href) THEN rest
            ELSE IF should_filter(FilterSubject(url, href), rules) = "true" THEN rest
            ELSE IF is_dir /\ \E t \in DOMAIN ctasks : ctasks[t].url = UrlJoin(url, href)
                 THEN rest
            ELSE <<[href |-> href, link |-> UrlJoin(url, href), is_dir |-> is_dir]>>
                 \o rest

\* The anchors of a page, in document order, as (href, link, is_dir);
\* should_filter(..).unwrap_or(false) keeps the link when the filter errs.
RECURSIVE extract_links(_, _, _)
extract_links(content, url, rules) ==
    IF content = <<>> THEN <<>>
    ELSE LET href == Head(content)
             rest == extract_links(Tail(content), url, rules)
         IN IF should_skip_url(href) THEN rest
            ELSE IF should_filter(FilterSubject(url, href), rules) = "true" THEN rest
            ELSE <<[href |-> href, link |-> UrlJoin(url, href),
                    is_dir |-> href[Len(href)] = "/"]>> \o rest

\* ------------------------------------------------------------ crawl inputs
RootUrl == [segs |-> <<>>, dir |-> TRUE]
OutputRoot == <<".", "/", "output">>

\* The tree of the end-to-end scenario: root{a.txt, sub/{b.txt}}.
SiteScenario ==
    (<<>> :> <<<<"a.txt">>, <<"sub", "/">>>>) @@
    (<<"sub">> :> <<<<"b.txt">>>>)

\* Two sibling directories, each page with its parent link; one page lists
\* the same file twice.
SiteWide ==
    (<<>> :> <<<<"?", "C=N">>, <<"sub", "/">>, <<"etc", "/">>>>) @@
    (<<"sub">> :> <<<<"..", "/">>, <<"b.txt">>>>) @@
    (<<"etc">> :> <<<<"..", "/">>, <<"e.txt">>, <<"e.txt">>>>)

\* A directory below a directory.
SiteDeep ==
    (<<>> :> <<<<"sub", "/">>>>) @@
    (<<"sub">> :> <<<<"..", "/">>, <<"deep", "/">>>>) @@
    (<<"sub", "deep">> :> <<<<"c.txt">>>>)

\* A listing page with a link that climbs out of the crawl root.
SiteEscape ==
    (<<>> :> <<<<"..", "/", "x.txt">>, <<"sub", "/">>>>) @@
    (<<"sub">> :> <<<<"..", "/">>, <<"b.txt">>>>)

\* A directory that two links lead to: its own and one on a sibling's page.
SiteTwice ==
    (<<>> :> <<<<"sub", "/">>, <<"etc", "/">>>>) @@
    (<<"sub">> :> <<<<"b.txt">>>>) @@
    (<<"etc">> :> <<<<"..", "/">>, <<"..", "/", "sub", "/">>>>)

Sites == {SiteScenario, SiteWide, SiteDeep, SiteEscape, SiteTwice}

FilterNone == <<>>
FilterAll == <<Include(<<"*">>)>>
FilterSub == <<Include(<<"*">>), Exclude(<<"sub", "/", "**">>)>>
FilterRec == <<Include(<<"*">>), Exclude(<<"**", "/", "sub", "/", "**">>)>>

\* A list with a pattern that glob::Pattern::new rejects; Config::from_file
\* parses the TOML only and loads it (config.rs l.60-66).
FilterBad == <<Include(<<"x.txt">>), Exclude(<<"***">>)>>

FilterLists == {FilterNone, FilterAll, FilterSub, FilterRec, FilterBad}

\* The body of a listing page; a URL the server does not know answers with a
\* page without anchors.
Listing(u) == IF u.segs \in DOMAIN site THEN site[u.segs] ELSE <<>>

CrawlTask(url, output_dir, root_relative_path) ==
    [url |-> url, output_dir |-> output_dir,
     root_relative_path |-> root_relative_path,
     pc |-> "spawned", links |-> <<>>, files_to_download |-> <<>>,
     directories_to_create |-> <<>>, tasks |-> <<>>,
     page |-> <<>>,      \* the hrefs of the body that was received
     probes |-> <<>>,    \* the results of the size probes of this call, in order
     err |-> "none",     \* why the call returned Err: "fetch" | "child"
     ret |-> -1]         \* the total size in the returned tuple, -1 before

dstate == <<files, disk, sched_pc, next_i, dtasks, permits,
            total_size_downloaded, run, succ1>>

InitCrawl ==
    /\ site \in Sites
    /\ filters \in FilterLists
    /\ concurrent_downloads \in 1..MaxLimit
    /\ ctasks = <<CrawlTask(RootUrl, OutputRoot, <<>>)>>
    /\ total_size = 0
    /\ files = <<>>
    /\ disk = [p \in DiskPaths |-> -1]
    /\ sched_pc = "idle"
    /\ next_i = 1
    /\ dtasks = <<>>
    /\ permits = 0
    /\ total_size_downloaded = 0
    /\ run = 1
    /\ succ1 = {}
    /\ IdleMain /\ IdleFilter /\ IdleRetry

\* ---------------------------------------------------------- crawl_directory
\* The task starts to run: the GET of the listing page is sent (l.82-83).
StartFetch(t) ==
    /\ ctasks[t].pc = "spawned"
    /\ ctasks' = [ctasks EXCEPT ![t].pc = "fetching"]
    /\ UNCHANGED <<site, filters, total_size, concurrent_downloads, dstate, xvars>>

\* The bodies a GET of the listing page can end with: the listing, or the
\* body of a non-2xx answer, which get_url returns as Ok too (l.41-49).
Bodies(u) == {Listing(u), <<>>}

\* A response arrives and its links are extracted (l.83-86).
FetchOk(t) ==
    /\ ctasks[t].pc = "fetching"
    /\ \E body \in Bodies(ctasks[t].url) :
          ctasks' = [ctasks EXCEPT
                        ![t].pc = "loop",
                        ![t].page = body,
                        ![t].links = extract_links(body, ctasks[t].url, filters)]
    /\ UNCHANGED <<site, filters, total_size, concurrent_downloads, dstate, xvars>>

\* The retry budget of the page fetch is used up: `.await?` returns Err (l.83).
FetchFail(t) ==
    /\ ctasks[t].pc = "fetching"
    /\ ctasks' = [ctasks EXCEPT ![t].pc = "failed", ![t].err = "fetch"]
    /\ UNCHANGED <<site, filters, total_size, concurrent_downloads, dstate, xvars>>

\* The directory pushed to directories_to_create for a directory link (l.110-113).
DirToCreate(output_dir, href) == Format2(Format2(output_dir, href), href)

\* The relative path recorded for a file link (l.142).
EntryPath(root_relative_path, href) == Format2(root_relative_path, href)

\* One iteration of the loop for a directory link (l.95-130).
VisitDir(t) ==
    /\ ctasks[t].pc = "loop"
    /\ ctasks[t].links # <<>>
    /\ LET l == Head(ctasks[t].links)
           me == ctasks[t]
           new_root_relative_path ==
               IF me.root_relative_path = <<>> THEN l.href
               ELSE Format2(me.root_relative_path, l.href)
           new_output_dir == Format2(me.output_dir, l.href)
           child == Len(ctasks) + 1
       IN /\ l.is_dir
          /\ ctasks' = Append(
                [ctasks EXCEPT
                    ![t].links = Tail(@),
                    ![t].directories_to_create =
                        Append(@, DirToCreate(me.output_dir, l.href)),
                    ![t].tasks = Append(@, child)],
                CrawlTask(l.link, new_output_dir, new_root_relative_path))
    /\ UNCHANGED <<site, filters, total_size, concurrent_downloads, dstate, xvars>>

\* What get_file_size can end with: Err once the retries are used up, or
\* Ok(size) (utils.rs l.115-143).
ProbeOutcomes ==
    {[ok |-> FALSE, size |-> 0]} \cup {[ok |-> TRUE, size |-> n] : n \in 0..MaxProbe}

FileSizeFailCounts(probe) == IF probe.ok THEN probe.size ELSE MaxProbe

\* get_file_size(..).await.unwrap_or_else(|_| 0) (l.133-136).
FileSize(probe) == IF probe.ok THEN probe.size ELSE 0

AddSizeLost(total, file_size) == file_size

\* total_size.fetch_add(file_size, SeqCst) (l.138).
AddSize(total, file_size) == total + file_size

\* One iteration of the loop for a file link: the size probe (0 when it
\* fails), the fetch_add, the push (l.131-144).
VisitFile(t) ==
    /\ ctasks[t].pc = "loop"
    /\ ctasks[t].links # <<>>
    /\ LET l == Head(ctasks[t].links)
           me == ctasks[t]
       IN /\ ~l.is_dir
          /\ \E probe \in ProbeOutcomes :
                /\ total_size' = AddSize(total_size, FileSize(probe))
                /\ ctasks' = [ctasks EXCEPT
                      ![t].links = Tail(@),
                      ![t].probes = Append(@, probe),
                      ![t].files_to_download =
                          Append(@, [url |-> l.link,
                                     output_dir |->
                                         EntryPath(me.root_relative_path, l.href)])]
    /\ UNCHANGED <<site, filters, concurrent_downloads, dstate, xvars>>

RECURSIVE CollectFilesReversed(_)
CollectFilesReversed(kids) ==
    IF kids = <<>> THEN <<>>
    ELSE CollectFilesReversed(Tail(kids)) \o ctasks[Head(kids)].files_to_download

CollectFilesLast(kids) ==
    IF kids = <<>> THEN <<>> ELSE ctasks[kids[Len(kids)]].files_to_download

\* files_to_download.extend(files) for every child result, in spawn order
\* (l.151-154).
RECURSIVE CollectFiles(_)
CollectFiles(kids) ==
    IF kids = <<>> THEN <<>>
    ELSE ctasks[Head(kids)].files_to_download \o CollectFiles(Tail(kids))

RECURSIVE CollectDirs(_)
CollectDirs(kids) ==
    IF kids = <<>> THEN <<>>
    ELSE ctasks[Head(kids)].directories_to_create \o CollectDirs(Tail(kids))

AllJoinedAtOnce(t) == TRUE

\* futures::future::join_all(tasks).await: every child has returned (l.148).
AllJoined(t) ==
    \A k \in Range(ctasks[t].tasks) : ctasks[k].pc \in {"done", "failed"}

\* join_all, then the results are merged in spawn order; the first child
\* error is returned by `result??` (l.147-161).
JoinChildren(t) ==
    /\ ctasks[t].pc = "loop"
    /\ ctasks[t].links = <<>>
    /\ AllJoined(t)
    /\ ctasks' = [ctasks EXCEPT ![t] =
          IF \E k \in Range(ctasks[t].tasks) : ctasks[k].pc = "failed"
          THEN [@ EXCEPT !.pc = "failed", !.err = "child"]
          ELSE [@ EXCEPT !.pc = "done",
                         !.ret = total_size,
                         !.files_to_download = @ \o CollectFiles(ctasks[t].tasks),
                         !.directories_to_create = @ \o CollectDirs(ctasks[t].tasks)]]
    /\ UNCHANGED <<site, filters, total_size, concurrent_downloads, dstate, xvars>>

NextCrawl ==
    \/ \E t \in DOMAIN ctasks : StartFetch(t)
    \/ \E t \in DOMAIN ctasks : FetchOk(t)
    \/ \E t \in DOMAIN ctasks : FetchFail(t)
    \/ \E t \in DOMAIN ctasks : VisitDir(t)
    \/ \E t \in DOMAIN ctasks : VisitFile(t)
    \/ \E t \in DOMAIN ctasks : JoinChildren(t)

SpecCrawl == InitCrawl /\ [][NextCrawl]_vars

\* =================================================================== main
\* main.rs: the directories are created by one spawned task each, then the
\* files are downloaded by main.rs's own download_files_parallel.
IdleDownload ==
    /\ files = <<>>
    /\ disk = [p \in DiskPaths |-> -1]
    /\ sched_pc = "idle"
    /\ next_i = 1
    /\ dtasks = <<>>
    /\ permits = 0
    /\ total_size_downloaded = 0
    /\ run = 1
    /\ succ1 = {}

\* A download task of main.rs before it is spawned.
MainTask == [pc |-> "unspawned", file |-> "none", res |-> "none"]

\* The state after the crawl and the prompt: the lists are known (l.163-177).
InitMain ==
    /\ main_pc = "mkdir"
    /\ \E n \in 1..MaxDirs : dir_results = [d \in 1..n |-> "pending"]
    /\ \E n \in 1..MaxFiles : mtasks = [i \in 1..n |-> MainTask]
    /\ concurrent_downloads \in 1..MaxLimit
    /\ mpermits = 0
    /\ IdleDownload /\ IdleCrawl /\ IdleFilter /\ IdleRetry

\* What the JoinHandle of a directory task yields: Ok(Ok(())), Ok(Err(io))
\* when create_dir_all fails, Err(JoinError) when the task panics (l.183-189, l.192).
DirOutcomes == {"ok", "io_err", "join_err"}

\* A directory task runs to its end (l.185-188).
CreateDir(d) ==
    /\ main_pc = "mkdir"
    /\ dir_results[d] = "pending"
    /\ \E o \in DirOutcomes : dir_results' = [dir_results EXCEPT ![d] = o]
    /\ UNCHANGED <<main_pc, mtasks, mpermits, dvars, cvars, qvars, rvars>>

\* `if let Err(e) = result` on a JoinHandle result (l.198-201).
IsFailed(result) == result = "join_err"

\* join_all, the check of the results, process::exit(1) or the call of
\* download_files_parallel with its Semaphore::new (l.192-213, l.393).
CheckDirs ==
    /\ main_pc = "mkdir"
    /\ \A d \in DOMAIN dir_results : dir_results[d] # "pending"
    /\ LET failed == \E d \in DOMAIN dir_results : IsFailed(dir_results[d])
       IN IF failed
          THEN main_pc' = "exit1" /\ mpermits' = mpermits
          ELSE main_pc' = "download" /\ mpermits' = concurrent_downloads
    /\ UNCHANGED <<dir_results, mtasks, dvars, cvars, qvars, rvars>>

\* One iteration of `for file_url in files`: the task is spawned (l.400-422).
MainSpawn ==
    /\ main_pc = "download"
    /\ \E i \in DOMAIN mtasks :
          /\ mtasks[i].pc = "unspawned"
          /\ \A j \in 1..(i - 1) : mtasks[j].pc # "unspawned"
          /\ mtasks' = [mtasks EXCEPT ![i].pc = "waiting"]
    /\ UNCHANGED <<main_pc, dir_results, mpermits, dvars, cvars, qvars, rvars>>

\* The loop is over; main waits in join_all (l.425).
MainLoopEnd ==
    /\ main_pc = "download"
    /\ \A i \in DOMAIN mtasks : mtasks[i].pc # "unspawned"
    /\ main_pc' = "join"
    /\ UNCHANGED <<dir_results, mtasks, mpermits, dvars, cvars, qvars, rvars>>

\* semaphore.acquire().await (l.407).
MainAcquire(i) ==
    /\ mtasks[i].pc = "waiting"
    /\ mpermits > 0
    /\ mpermits' = mpermits - 1
    /\ mtasks' = [mtasks EXCEPT ![i].pc = "acquired"]
    /\ UNCHANGED <<main_pc, dir_results, dvars, cvars, qvars, rvars>>

\* download_file of main.rs: the GET or its status fails before the file is
\* opened, File::create fails, the body fails after the file was created, or
\* the content is written (l.432-455); an Err is logged only (l.412-414).
MainDownloadFile(i) ==
    /\ mtasks[i].pc = "acquired"
    /\ \E o \in {[file |-> "none", res |-> "err"],
                 [file |-> "empty", res |-> "err"],
                 [file |-> "written", res |-> "ok"]} :
          mtasks' = [mtasks EXCEPT ![i] = [pc |-> "release", file |-> o.file,
                                           res |-> o.res]]
    /\ UNCHANGED <<main_pc, dir_results, mpermits, dvars, cvars, qvars, rvars>>

\* pb.inc(1); drop(permit) (l.416-418).
MainRelease(i) ==
    /\ mtasks[i].pc = "release"
    /\ mpermits' = mpermits + 1
    /\ mtasks' = [mtasks EXCEPT ![i].pc = "done"]
    /\ UNCHANGED <<main_pc, dir_results, dvars, cvars, qvars, rvars>>

\* join_all returns and main ends with Ok (l.425-428, l.215-218).
MainJoin ==
    /\ main_pc = "join"
    /\ \A i \in DOMAIN mtasks : mtasks[i].pc = "done"
    /\ main_pc' = "ok"
    /\ UNCHANGED <<dir_results, mtasks, mpermits, dvars, cvars, qvars, rvars>>

NextMain ==
    \/ \E d \in DOMAIN dir_results : CreateDir(d)
    \/ CheckDirs
    \/ MainSpawn
    \/ MainLoopEnd
    \/ \E i \in DOMAIN mtasks : MainAcquire(i)
    \/ \E i \in DOMAIN mtasks : MainDownloadFile(i)
    \/ \E i \in DOMAIN mtasks : MainRelease(i)
    \/ MainJoin

SpecMain == InitMain /\ [][NextMain]_vars

\* ========================================================= should_filter
\* One call of should_filter on arguments drawn from small sets.
FilterRules ==
    {Include(<<"*">>), Include(<<"sub", "/", "**">>),
     Exclude(<<"sub", "/", "**">>), Exclude(<<"**", "/", "sub", "/", "**">>),
     Exclude(<<"***">>)}

FilterPaths ==
    {<<"a.txt">>, <<"/", "a.txt">>, <<"sub", "/">>, <<"sub", "/", "b.txt">>,
     <<"/", "sub", "/", "b.txt">>}

RuleLists == {<<>>} \cup SeqsUpTo(FilterRules, MaxRules)

\* The reorderings of a rule list.
Reorderings(rules) ==
    {[i \in DOMAIN rules |-> rules[f[i]]] :
        f \in {g \in [DOMAIN rules -> DOMAIN rules] :
                  \A i, j \in DOMAIN rules : g[i] = g[j] => i = j}}

InitFilter ==
    /\ q_path \in FilterPaths
    /\ q_rules \in RuleLists
    /\ q_result = "none"
    /\ q_perm \in Reorderings(q_rules)
    /\ q_result2 = "none"
    /\ concurrent_downloads = 1
    /\ IdleDownload /\ IdleCrawl /\ IdleMain /\ IdleRetry

\* The call returns (utils.rs l.168-199).
CallFilter ==
    /\ q_result = "none"
    /\ q_result' = should_filter(q_path, q_rules)
    /\ UNCHANGED <<q_path, q_rules, q_perm, q_result2, dvars, cvars, mvars, rvars>>

\* The call on the reordered list returns (utils.rs l.168-199).
CallFilterReordered ==
    /\ q_result2 = "none"
    /\ q_result2' = should_filter(q_path, q_perm)
    /\ UNCHANGED <<q_path, q_rules, q_perm, q_result, dvars, cvars, mvars, rvars>>

NextFilter ==
    \/ CallFilter
    \/ CallFilterReordered

SpecFilter == InitFilter /\ [][NextFilter]_vars

\* ================================================================= retry
\* One call through Retry::spawn_notify: the listing GET of crawl_directory
\* (get_url, network.rs l.41-49, l.73-83) or the size probe of get_file_size
\* (action, utils.rs l.115-143).
CrawlRetryTake == 15     \* .take(15)
ProbeRetryTake == 150    \* .take(150)

\* The number of delays the strategy yields: the retries after the first try.
RetryTake(call) == IF call = "get_url" THEN CrawlRetryTake ELSE ProbeRetryTake

InitRetry ==
    /\ r_call \in {"get_url", "get_file_size"}
    /\ r_pc = "running"
    /\ r_tries = 0
    /\ r_last = "none"
    /\ r_size = 0
    /\ concurrent_downloads = 1
    /\ IdleDownload /\ IdleCrawl /\ IdleMain /\ IdleFilter

\* What is mapped to RetryError::transient: the error of send(), and for the
\* probe a Content-Length that is not visible ASCII.
TransientCauses(call) ==
    IF call = "get_url" THEN {"send_err"} ELSE {"send_err", "bad_header"}

\* An attempt ends with a transient error: the next delay of the strategy is
\* slept and the call is tried again, or the strategy is used up and the
\* retried call returns the error.
AttemptTransient ==
    /\ r_pc = "running"
    /\ \E cause \in TransientCauses(r_call) : r_last' = cause
    /\ r_tries' = r_tries + 1
    /\ r_pc' = IF r_tries + 1 <= RetryTake(r_call) THEN "running" ELSE "err"
    /\ UNCHANGED <<r_call, r_size, dvars, cvars, mvars, qvars>>

\* An attempt is answered with a status outside 2xx: get_url returns the
\* response as Ok, action warns and returns Ok(0).
AttemptNon2xx ==
    /\ r_pc = "running"
    /\ r_last' = "non_2xx"
    /\ r_tries' = r_tries + 1
    /\ r_pc' = "ok"
    /\ r_size' = 0
    /\ UNCHANGED <<r_call, dvars, cvars, mvars, qvars>>

\* An attempt is answered with 2xx: Ok(response), or Ok(size) with 0 for a
\* Content-Length that is missing or is no number.
Attempt2xx ==
    /\ r_pc = "running"
    /\ r_last' = "2xx"
    /\ r_tries' = r_tries + 1
    /\ r_pc' = "ok"
    /\ \E n \in 0..MaxProbe : r_size' = IF r_call = "get_url" THEN 0 ELSE n
    /\ UNCHANGED <<r_call, dvars, cvars, mvars, qvars>>

NextRetry ==
    \/ AttemptTransient
    \/ AttemptNon2xx
    \/ Attempt2xx

SpecRetry == InitRetry /\ [][NextRetry]_vars

\* ======================================================== download claims
Quiescent ==
    /\ sched_pc \in {"ok", "err"}
    /\ \A i \in DOMAIN dtasks : Finished(dtasks[i])

\* Entries that fail: the path cannot be decoded, or download_file returned Err.
Faulty == {i \in DOMAIN files :
              ~DecodeOk(files[i].output_dir) \/ dtasks[i].res = "err"}

\* Entries whose failure was logged by the Err arm of the task (l.263-266).
Reported == {i \in DOMAIN dtasks : dtasks[i].res = "err"}

\* Entries that have gone through the Ok arm's fetch_add.
Added == {i \in Succeeded : dtasks[i].pc \in {"release", "done"}}

SizeOf == [i \in DOMAIN dtasks |-> dtasks[i].size]

\* C1: the number of download tasks between acquiring and releasing a permit
\* never exceeds the concurrency limit.
C1_InFlightWithinLimit == Cardinality(InFlight) <= concurrent_downloads

\* Two transfers in flight under limit 2 while a third task waits for a permit.
C1_Witness ==
    /\ concurrent_downloads = 2
    /\ Cardinality(InFlight) = 2
    /\ \E i \in DOMAIN dtasks : dtasks[i].pc = "waiting"

\* C3: when exactly one entry of a manifest of several fails,
\* download_files_parallel still returns Ok, every other entry is downloaded,
\* and only that entry is reported as failed.
C3_SingleFailureIsolated ==
    (Quiescent /\ Len(files) >= 2 /\ Cardinality(Faulty) = 1) =>
        /\ sched_pc = "ok"
        /\ \A i \in DOMAIN files \ Faulty : dtasks[i].res = "ok"
        /\ Reported = Faulty

\* C4: once download_files_parallel has returned, with Ok or with Err, every
\* task it dispatched has finished.
C4_ReturnedImpliesTasksDone ==
    sched_pc \in {"ok", "err"} => \A i \in DOMAIN dtasks : Finished(dtasks[i])

\* C5: the shared byte counter is the sum of the sizes returned by the
\* download_file calls that succeeded and have been added, each once; when the
\* join has completed every success has been added, failures add nothing; a
\* returned size is the number of bytes streamed, or the on-disk length of a
\* file that was already there.
C5_AggregateBytes ==
    /\ total_size_downloaded = SumOver(SizeOf, Added)
    /\ sched_pc = "ok" => Added = Succeeded
    /\ \A i \in Succeeded :
          /\ dtasks[i].size = disk[dtasks[i].path]
          /\ ~dtasks[i].skipped => dtasks[i].size = dtasks[i].downloaded

\* A completed run with an already-present file, a streamed file, and a file
\* that failed after bytes had been written.
C5_Witness ==
    /\ sched_pc = "ok"
    /\ total_size_downloaded = 2
    /\ \E i \in Succeeded : dtasks[i].skipped
    /\ \E i \in Succeeded : ~dtasks[i].skipped /\ dtasks[i].size = 1
    /\ \E i \in Reported : dtasks[i].downloaded = 1

RunEnded == run = 2 /\ Quiescent

\* C6 (as claimed): whatever the first run's outcome, the second run sends no
\* request and reports the same successful set.
C6_RerunIdempotent ==
    RunEnded =>
        /\ \A i \in DOMAIN dtasks : ~dtasks[i].req
        /\ Succeeded = succ1

\* C6 (amended): in the second run no request is sent for an entry the first
\* run reported successful, and that entry is reported successful again, from
\* the file on disk, when its task completes.
C6_RerunSkipsSucceeded ==
    run = 2 =>
        \A i \in succ1 :
            /\ ~dtasks[i].req
            /\ dtasks[i].res # "err"
            /\ dtasks[i].pc = "done" => (dtasks[i].res = "ok" /\ dtasks[i].skipped)

\* The second run has ended: an entry that succeeded before was served from
\* disk, and an entry that failed before was requested again.
C6_Witness ==
    /\ RunEnded
    /\ \E i \in succ1 : dtasks[i].pc = "done" /\ dtasks[i].skipped
    /\ \E j \in DOMAIN dtasks \ succ1 : dtasks[j].req

\* C16: for a limit of at least 1, when download_files_parallel has returned
\* every entry of the manifest has been attempted: its task was spawned, or
\* its path could not be decoded and was reported; no entry is left out.
C16_ReturnedAllAttempted ==
    (concurrent_downloads >= 1 /\ run = 1 /\ sched_pc \in {"ok", "err"}) =>
        \A i \in DOMAIN files :
            dtasks[i].pc # "unspawned" \/ ~DecodeOk(files[i].output_dir)

\* C17: when the destination is a regular file at the moment download_file
\* checks it, the call ends there with Ok(length on disk), sends no request
\* and leaves the disk as it is; a skipped entry never sends a request later.
C17_ExistingFileSkipped ==
    [][\A i \in DOMAIN dtasks :
          LET before == dtasks[i]
              after == dtasks'[i]
          IN /\ (before.pc = "acquired" /\ after.pc # "acquired"
                    /\ disk[before.path] >= 0)
                => /\ after.pc = "ok"
                   /\ after.res = "ok"
                   /\ after.size = disk[before.path]
                   /\ ~after.req
                   /\ disk' = disk
             /\ (before.skipped /\ run' = run)
                => /\ ~after.req
                   /\ disk'[before.path] = disk[before.path]]_vars

\* A call that found its destination on disk has returned its length.
C17_Witness ==
    \E i \in DOMAIN dtasks :
        /\ dtasks[i].skipped
        /\ dtasks[i].pc = "done"
        /\ dtasks[i].size = disk[dtasks[i].path]
        /\ dtasks[i].size >= 1

\* C22: the GET of a file body is retried: a file is reported as failed for
\* a transient network error only after more than one GET was sent for it.
C22_FileGetRetried ==
    \A i \in DOMAIN dtasks :
        dtasks[i].cause = "neterr" => dtasks[i].gets > 1

\* C25: every path is decoded before the first task is dispatched: when the
\* decoding of an entry fails, no download task has been spawned.
C25_DecodedBeforeDispatch ==
    (run = 1 /\ sched_pc = "err") =>
        \A i \in DOMAIN dtasks : dtasks[i].pc = "unspawned"

\* C28: with a concurrency limit of 0 and a non-empty list the call never
\* returns and no task gets past the semaphore.
C28_LimitZeroNeverReturns ==
    (concurrent_downloads = 0 /\ files # <<>>) =>
        /\ sched_pc \notin {"ok", "err"}
        /\ \A i \in DOMAIN dtasks : dtasks[i].pc \in {"unspawned", "waiting"}

\* ========================================================== filter claims
ValidRules(rules) == \A i \in DOMAIN rules : ParsePattern(rules[i].pattern).ok

RuleMatches(rule, path) == MatchesFrom(ParsePattern(rule.pattern).toks, path)

\* The reference rule: nothing is filtered by an empty list; a matching
\* Exclude rule filters wherever it stands; without a matching Include rule
\* the path is filtered; otherwise it is kept.
ReferenceFilter(path, rules) ==
    IF rules = <<>> THEN "false"
    ELSE IF \E i \in DOMAIN rules :
               rules[i].rule_type = "Exclude" /\ RuleMatches(rules[i], path)
    THEN "true"
    ELSE IF ~\E i \in DOMAIN rules :
                rules[i].rule_type = "Include" /\ RuleMatches(rules[i], path)
    THEN "true"
    ELSE "false"

\* C15: for every path and every rule list whose patterns are all valid,
\* should_filter returns what the reference rule gives.
C15_FilterAgreesWithReference ==
    (q_result # "none" /\ ValidRules(q_rules)) =>
        q_result = ReferenceFilter(q_path, q_rules)

\* A call that excluded a path although an Include rule before the Exclude
\* rule matched it.
C15_Witness ==
    /\ q_result = "true"
    /\ Len(q_rules) = 2
    /\ q_rules[1].rule_type = "Include" /\ RuleMatches(q_rules[1], q_path)
    /\ q_rules[2].rule_type = "Exclude" /\ RuleMatches(q_rules[2], q_path)

\* C29: for rule lists whose patterns are all valid the verdict of
\* should_filter does not depend on the order of the rules.
C29_OrderOfRulesIrrelevant ==
    (q_result # "none" /\ q_result2 # "none" /\ ValidRules(q_rules)) =>
        q_result = q_result2

\* Both calls returned for a list of an Include and an Exclude rule that
\* both match, given in the two orders.
C29_Witness ==
    /\ q_result = "true" /\ q_result2 = "true"
    /\ Len(q_rules) = 2
    /\ q_perm # q_rules
    /\ q_rules[1].rule_type = "Include" /\ RuleMatches(q_rules[1], q_path)
    /\ q_rules[2].rule_type = "Exclude" /\ RuleMatches(q_rules[2], q_path)

\* =========================================================== retry claims
\* C20: an answer with a status outside 2xx is a transient failure of a
\* retried call: the call returns Ok only when its last attempt was answered
\* with 2xx.
C20_Non2xxIsRetried ==
    r_pc = "ok" => r_last = "2xx"

\* C21: the retry budget bounds the attempts: a listing-page fetch is tried at
\* most 15 times in total and a size probe at most 150 times.
C21_AttemptsWithinBudget ==
    r_call # "none" => r_tries <= RetryTake(r_call)

\* ============================================================ main claims
\* C14: every directory of the list has been created before a download task
\* exists: when the creation of a directory failed, the run has ended before
\* any download began.
C14_DirsCreatedBeforeDownload ==
    (\E i \in DOMAIN mtasks : mtasks[i].pc # "unspawned") =>
        \A d \in DOMAIN dir_results : dir_results[d] = "ok"

\* =========================================================== crawl claims
Root == ctasks[1]

CrawlDone == ctasks # <<>> /\ Root.pc = "done"

\* The manifest the root call returns.
Manifest == Root.files_to_download

DirsToCreate == Range(Root.directories_to_create)

\* A listed directory, relative to the output root when it lies below it.
RelDir(d) ==
    LET c == Components(d)
        o == Components(OutputRoot)
    IN IF Len(c) >= Len(o) /\ SubSeq(c, 1, Len(o)) = o
       THEN SubSeq(c, Len(o) + 1, Len(c)) ELSE c

\* The directory prefixes of a relative path: every non-empty proper prefix
\* of its components.
DirPrefixes(p) ==
    LET c == Components(p) IN {SubSeq(c, 1, k) : k \in 1..(Len(c) - 1)}

FetchesInFlight == {t \in DOMAIN ctasks : ctasks[t].pc = "fetching"}

\* C2: the number of listing-page fetches in flight never exceeds the
\* configured pool size, however many directory links the tree has.
C2_FetchesWithinPool == Cardinality(FetchesInFlight) <= concurrent_downloads

\* C7: in the manifest of a completed crawl, every directory prefix of every
\* entry's relative path is in the directories-to-create list (entries whose
\* path climbs with ".." are left to C8).
C7_PrefixesListed ==
    CrawlDone =>
        \A i \in DOMAIN Manifest :
            ".." \notin Range(Manifest[i].output_dir) =>
                \A d \in DirPrefixes(Manifest[i].output_dir) :
                    \E l \in DirsToCreate : RelDir(l) = d

\* Following the components of a path from the output root never climbs
\* above it.
RECURSIVE StaysInside(_, _)
StaysInside(comps, depth) ==
    IF comps = <<>> THEN TRUE
    ELSE IF Head(comps) = ".." THEN depth > 0 /\ StaysInside(Tail(comps), depth - 1)
    ELSE StaysInside(Tail(comps), depth + 1)

\* C8: no entry of the manifest has a relative path that begins with "/" or
\* has a ".." segment, and every destination lies inside the output root.
C8_RelativePathsSafe ==
    \A t \in DOMAIN ctasks :
        \A i \in DOMAIN ctasks[t].files_to_download :
            LET p == ctasks[t].files_to_download[i].output_dir
            IN /\ Head(p) # "/"
               /\ ".." \notin Range(p)
               /\ StaysInside(Components(p), 0)

\* Every page that was fetched answered with its listing.
AllListed ==
    \A t \in DOMAIN ctasks :
        ctasks[t].pc \in {"loop", "done"} => ctasks[t].page = Listing(ctasks[t].url)

\* C9: crawling root{a.txt, sub/{b.txt}} with [Include "*"] gives exactly the
\* entries a.txt (from /a.txt) and sub/b.txt (from /sub/b.txt), and the
\* directories to create are exactly {sub}.
C9_ScenarioManifest ==
    (CrawlDone /\ AllListed /\ site = SiteScenario /\ filters = FilterAll) =>
        /\ Len(Manifest) = 2
        /\ {<<Components(Manifest[i].output_dir), UrlPath(Manifest[i].url)>> :
                i \in DOMAIN Manifest}
             = {<<<<"a.txt">>, <<"/", "a.txt">>>>,
                <<<<"sub", "b.txt">>, <<"/", "sub", "/", "b.txt">>>>}
        /\ {RelDir(l) : l \in DirsToCreate} = {<<"sub">>}

\* The candidate relative path of a manifest entry: the relative-path prefix
\* joined with the href.
CandidatePath(e) == JoinSlash(Components(e.output_dir))

\* C10: every link is filtered on its candidate relative path, so no entry
\* whose relative path the rules exclude is in the manifest; with
\* [Include "*", Exclude "sub/**"] on root{a.txt, sub/{b.txt}} the entry
\* sub/b.txt is absent.
C10_FilterOnRelativePath ==
    CrawlDone =>
        /\ \A i \in DOMAIN Manifest :
              should_filter(CandidatePath(Manifest[i]), filters) # "true"
        /\ (site = SiteScenario /\ filters = FilterSub) =>
              \A i \in DOMAIN Manifest :
                  Components(Manifest[i].output_dir) # <<"sub", "b.txt">>

\* C11: the crawl fails only when the root page itself cannot be fetched; a
\* listing page of a non-root directory that cannot be fetched costs its own
\* subtree only, and the root call still returns.
C11_SubtreeFailureContained ==
    Root.pc = "failed" => Root.err = "fetch"

\* C12: a size probe that fails neither aborts the crawl nor drops the file:
\* the step that records the failed probe leaves the total size as it was,
\* appends the entry of that file link and stays in the loop.
C12_ProbeFailureKeepsFile ==
    [][\A t \in DOMAIN ctasks :
          LET before == ctasks[t]
              after == ctasks'[t]
          IN (/\ Len(after.probes) = Len(before.probes) + 1
              /\ ~after.probes[Len(after.probes)].ok)
             => /\ total_size' = total_size
                /\ after.pc = "loop"
                /\ Len(after.files_to_download) = Len(before.files_to_download) + 1
                /\ after.files_to_download[Len(after.files_to_download)].url
                      = Head(before.links).link]_vars

\* The manifest of a completed crawl has an entry whose probe failed.
C12_Witness ==
    /\ CrawlDone
    /\ Len(Manifest) >= 2
    /\ \E k \in DOMAIN Root.probes : ~Root.probes[k].ok

\* The sum of the probe results of one call, a failed probe counting 0.
RECURSIVE ProbeSum(_)
ProbeSum(ps) ==
    IF ps = <<>> THEN 0
    ELSE (IF Head(ps).ok THEN Head(ps).size ELSE 0) + ProbeSum(Tail(ps))

RECURSIVE ProbedTotal(_)
ProbedTotal(n) ==
    IF n = 0 THEN 0 ELSE ProbeSum(ctasks[n].probes) + ProbedTotal(n - 1)

\* C13: when the root call returns successfully, the total size it returns is
\* the sum of the probe results of all file links visited by all calls (0 for
\* a failed probe): no update of the shared counter is lost or made twice.
C13_TotalIsSumOfProbes ==
    CrawlDone => Root.ret = ProbedTotal(Len(ctasks))

\* A completed crawl with at least two calls and two probes that counted.
C13_Witness ==
    /\ CrawlDone
    /\ Len(ctasks) >= 2
    /\ Root.ret >= 2

\* The positions of the file links of the page a call received that are
\* neither skipped nor filtered out.
FileLinkAt(t) ==
    {k \in DOMAIN ctasks[t].page :
        LET href == ctasks[t].page[k]
        IN /\ ~should_skip_url(href)
           /\ href[Len(href)] # "/"
           /\ should_filter(FilterSubject(ctasks[t].url, href), filters) # "true"}

\* How often calls 1..n found a file link to u on their pages.
RECURSIVE Occurrences(_, _)
Occurrences(u, n) ==
    IF n = 0 THEN 0
    ELSE Cardinality({k \in FileLinkAt(n) :
                         UrlJoin(ctasks[n].url, ctasks[n].page[k]) = u})
         + Occurrences(u, n - 1)

RECURSIVE FileLinkCount(_)
FileLinkCount(n) ==
    IF n = 0 THEN 0 ELSE Cardinality(FileLinkAt(n)) + FileLinkCount(n - 1)

InManifest(u) == Cardinality({i \in DOMAIN Manifest : Manifest[i].url = u})

\* C18: the manifest of a completed crawl has exactly one entry per
\* occurrence of every file link on every page that was fetched and not
\* pruned: the merge of the children's results drops nothing and doubles
\* nothing, whatever the interleaving of the calls.
C18_OneEntryPerFileLink ==
    CrawlDone =>
        /\ Len(Manifest) = FileLinkCount(Len(ctasks))
        /\ \A t \in DOMAIN ctasks : \A k \in FileLinkAt(t) :
              LET u == UrlJoin(ctasks[t].url, ctasks[t].page[k])
              IN InManifest(u) = Occurrences(u, Len(ctasks))

\* A completed crawl whose manifest has a file listed twice on one page and
\* files of two sibling directories.
C18_Witness ==
    /\ CrawlDone
    /\ Len(Root.tasks) = 2
    /\ \A k \in Range(Root.tasks) : ctasks[k].files_to_download # <<>>
    /\ \E u \in {Manifest[i].url : i \in DOMAIN Manifest} : InManifest(u) = 2

IsPrefix(a, b) == Len(a) <= Len(b) /\ SubSeq(b, 1, Len(a)) = a

\* The directory links of the page a call received that the filter excludes.
PrunedAt(t) ==
    {k \in DOMAIN ctasks[t].page :
        LET href == ctasks[t].page[k]
        IN /\ ~should_skip_url(href)
           /\ href[Len(href)] = "/"
           /\ should_filter(FilterSubject(ctasks[t].url, href), filters) = "true"}

\* C19: a directory link that the filter excludes is pruned with its whole
\* subtree: no call is spawned for it (its page is never fetched), it is not
\* in any directories-to-create list, and no file at or below it is in any
\* list of files to download.
C19_ExcludedDirectoryPruned ==
    \A t \in DOMAIN ctasks : \A k \in PrunedAt(t) :
        LET href == ctasks[t].page[k]
            u == UrlJoin(ctasks[t].url, href)
            d == Components(Format2(ctasks[t].output_dir, href))
        IN \A v \in DOMAIN ctasks :
              /\ ctasks[v].url # u
              /\ \A i \in DOMAIN ctasks[v].directories_to_create :
                    ~IsPrefix(d, Components(ctasks[v].directories_to_create[i]))
              /\ \A i \in DOMAIN ctasks[v].files_to_download :
                    ~IsPrefix(u.segs, ctasks[v].files_to_download[i].url.segs)

\* A completed crawl that pruned a directory link and still lists a file.
C19_Witness ==
    /\ CrawlDone
    /\ PrunedAt(1) # {}
    /\ Manifest # <<>>

\* The hrefs of the page a call received that are kept, as seen on the page.
KeptLink(t, href) ==
    /\ ~should_skip_url(href)
    /\ should_filter(FilterSubject(ctasks[t].url, href), filters) # "true"

\* The directory links, and the file links, of the page of a call, in
\* document order.
DirLinksOf(t) ==
    SelectSeq(ctasks[t].page, LAMBDA h : KeptLink(t, h) /\ h[Len(h)] = "/")

FileLinksOf(t) ==
    SelectSeq(ctasks[t].page, LAMBDA h : KeptLink(t, h) /\ h[Len(h)] # "/")

\* A call that left its loop has one child per directory link of its page, in
\* document order.
ChildPerLink(t) ==
    /\ Len(ctasks[t].tasks) = Len(DirLinksOf(t))
    /\ \A j \in DOMAIN ctasks[t].tasks :
          ctasks[ctasks[t].tasks[j]].url = UrlJoin(ctasks[t].url, DirLinksOf(t)[j])

CallsOf(u) == {t \in DOMAIN ctasks : ctasks[t].url = u}

\* C23: there is no set of visited URLs: in a completed crawl every call has
\* one child call per directory link of its page, also when two links lead to
\* the same URL, and the files of such a page are in the manifest once per
\* link that reached it.
C23_NoVisitedSet ==
    CrawlDone =>
        /\ \A t \in DOMAIN ctasks : ChildPerLink(t)
        /\ (site = SiteTwice /\ AllListed /\ filters \in {FilterNone, FilterAll}) =>
              /\ Cardinality(CallsOf([segs |-> <<"sub">>, dir |-> TRUE])) = 2
              /\ InManifest([segs |-> <<"sub", "b.txt">>, dir |-> FALSE]) = 2

\* A completed crawl in which two calls fetched the same page and both
\* listed its file.
C23_Witness ==
    /\ CrawlDone
    /\ \E t, u \in DOMAIN ctasks :
          /\ t # u
          /\ ctasks[t].url = ctasks[u].url
          /\ ctasks[t].files_to_download # <<>>
          /\ ctasks[u].files_to_download # <<>>

\* C24: a pattern that is no valid glob is reported when the configuration
\* is loaded: during the crawl no link of a fetched page makes should_filter
\* fail on a pattern.
C24_InvalidPatternAtLoad ==
    \A t \in DOMAIN ctasks :
        ctasks[t].pc \in {"loop", "done"} =>
            \A k \in DOMAIN ctasks[t].page :
                ~should_skip_url(ctasks[t].page[k]) =>
                    should_filter(FilterSubject(ctasks[t].url, ctasks[t].page[k]),
                                  filters) # "err"

Returned(t) == ctasks[t].pc \in {"done", "failed"}

\* C26: a call has returned only when every call it spawned has returned;
\* when the root call has returned every call has, and the counter keeps the
\* value the root loaded.
C26_ReturnsAfterChildren ==
    /\ \A t \in DOMAIN ctasks :
          Returned(t) => \A k \in Range(ctasks[t].tasks) : Returned(k)
    /\ Returned(1) => \A t \in DOMAIN ctasks : Returned(t)
    /\ CrawlDone => total_size = Root.ret

\* The root has returned Err because a grandchild failed, and two levels of
\* calls below it have returned.
C26_Witness ==
    /\ Root.pc = "failed"
    /\ Root.err = "child"
    /\ \E k \in Range(Root.tasks) :
          ctasks[k].err = "child" /\ ctasks[k].tasks # <<>>

\* The entries a call pushes for the file links of its page.
RECURSIVE OwnEntries(_, _)
OwnEntries(t, hrefs) ==
    IF hrefs = <<>> THEN <<>>
    ELSE <<[url |-> UrlJoin(ctasks[t].url, Head(hrefs)),
            output_dir |-> EntryPath(ctasks[t].root_relative_path, Head(hrefs))]>>
         \o OwnEntries(t, Tail(hrefs))

\* The list in document order: the entries of the page, then the lists of
\* its subdirectories in the order of their links.
RECURSIVE ExpectedList(_, _)
ExpectedList(t, kids) ==
    IF kids = <<>> THEN <<>>
    ELSE (OwnEntries(Head(kids), FileLinksOf(Head(kids)))
            \o ExpectedList(Head(kids), ctasks[Head(kids)].tasks))
         \o ExpectedList(t, Tail(kids))

\* C27: the list a completed crawl returns is the same for every
\* interleaving of the calls: the file entries of a page in document order,
\* then the entries of each subdirectory in the document order of the
\* directory links, recursively.
C27_OrderIsDocumentOrder ==
    CrawlDone =>
        /\ \A t \in DOMAIN ctasks : ChildPerLink(t)
        /\ Manifest = ExpectedList(0, <<1>>)

\* A completed crawl whose root has a file and two subdirectories with files.
C27_Witness ==
    /\ CrawlDone
    /\ Len(Root.tasks) = 2
    /\ \A k \in Range(Root.tasks) : ctasks[k].files_to_download # <<>>
    /\ Len(Manifest) >= 3

====
